---- MODULE Spec2Model ----
(***************************************************************************)
(* The lead qualifier: POST /qualify-lead (src/main.py) runs the LangGraph *)
(* workflow classify_lead -> decide_next_step -> enrich_lead ->            *)
(* score_and_draft, stores sales leads with add_lead_to_db (src/tools.py)  *)
(* and answers with a LeadOutput.                                          *)
(***************************************************************************)
EXTENDS Integers, Sequences, FiniteSets, TLC

\* Number of requests the model submits.
NumRequests == 1
Requests == 1..NumRequests

\* The scoring prompt asks for a score "from 0 to 100".
MinScore == 0
MaxScore == 100

(***************************************************************************)
(* Python values.  A value carries its type, so that None, a str and an    *)
(* int stay distinct; a dict is a function from its keys, and a key that   *)
(* is not in the dict is not in the function's domain.                     *)
(***************************************************************************)
PyNone == [kind |-> "None"]
PyStr(s) == [kind |-> "str", str |-> s]
PyInt(i) == [kind |-> "int", int |-> i]

IsStr(v) == v.kind = "str"
IsInt(v) == v.kind = "int"

EmptyDict == [k \in {} |-> PyNone]

\* d.get(key, default)
DictGet(d, key, default) == IF key \in DOMAIN d THEN d[key] ELSE default

\* {**a, **b}, and the merge of a node's partial update into the state
DictMerge(a, b) ==
    [k \in (DOMAIN a) \cup (DOMAIN b) |-> IF k \in DOMAIN b THEN b[k] ELSE a[k]]

\* The outcome of a call: a returned value or a raised exception.
Returned(v) == [exc |-> "none", val |-> v]
Raised(e) == [exc |-> e]

(***************************************************************************)
(* Request bodies.  An email is a sequence of pieces in which "@" is a     *)
(* piece of its own.                                                       *)
(***************************************************************************)
LeadAda ==
    [name |-> "Ada", email |-> <<"ada", "@", "acme.com">>,
     message |-> "Can you send pricing for 500 seats?"]
LeadBob ==
    [name |-> "Bob", email |-> <<"bob", "@", "initech.io">>,
     message |-> "Do you have any open engineering roles?"]
BodyBadEmail ==
    [name |-> "Eve", email |-> <<"eve.example.com">>, message |-> "hello"]
BodyNoMessage ==
    [name |-> "Dan", email |-> <<"dan", "@", "acme.com">>]

Bodies == {LeadAda, LeadBob, BodyBadEmail, BodyNoMessage}

\* str.split(sep): the pieces between the separators
RECURSIVE Split(_, _)
Split(s, sep) ==
    IF \A i \in 1..Len(s) : s[i] # sep
    THEN <<s>>
    ELSE LET i == CHOOSE n \in 1..Len(s) :
                      s[n] = sep /\ \A j \in 1..(n - 1) : s[j] # sep
         IN  <<SubSeq(s, 1, i - 1)>> \o Split(SubSeq(s, i + 1, Len(s)), sep)

\* EmailStr: one "@" with something on both sides
EmailStrValid(email) ==
    LET parts == Split(email, "@")
    IN  Len(parts) = 2 /\ parts[1] # <<>> /\ parts[2] # <<>>

\* email declared str instead of EmailStr: any text passes
LeadInputValid_email_is_str(body) ==
    {"name", "email", "message"} \subseteq DOMAIN body

\* LeadInput: name, email and message are required; email is an EmailStr
LeadInputValid(body) ==
    /\ {"name", "email", "message"} \subseteq DOMAIN body
    /\ EmailStrValid(body.email)

(***************************************************************************)
(* What the outside world can answer.                                      *)
(***************************************************************************)
\* response.content of the LLM: text that is no JSON, JSON that is no
\* object, or a JSON object
NotJson == [kind |-> "text"]
JsonNonObject == [kind |-> "array"]
JsonObject(d) == [kind |-> "object", obj |-> d]

ClassificationValues ==
    {PyStr("sales_query"), PyStr("customer_support"), PyStr("job_application"),
     PyStr("spam"), PyStr("Sales_Query"), PyNone}

ClassifierResponses ==
    {NotJson, JsonNonObject, JsonObject(EmptyDict)}
        \cup {JsonObject([classification |-> c]) : c \in ClassificationValues}

ScoreValues ==
    {PyInt(MinScore), PyInt(85), PyInt(MaxScore),
     PyInt(MinScore - 1), PyInt(MaxScore + 1), PyStr("high"), PyStr("85"),
     PyNone}

ReplyValues == {PyStr("Hi, thanks for reaching out.")}

ScorerResponses ==
    {NotJson, JsonNonObject, JsonObject(EmptyDict)}
        \cup {JsonObject([score |-> s]) : s \in ScoreValues}
        \cup {JsonObject([drafted_reply |-> d]) : d \in ReplyValues}
        \cup {JsonObject([score |-> s, drafted_reply |-> d]) :
                 s \in ScoreValues, d \in ReplyValues}

\* The homepage fetch: a page whose <title> has text, has no plain text
\* (soup.title.string is None) or is absent; a timeout; another failure
PageWithTitle == [kind |-> "page", title |-> PyStr("  Acme Corp \n")]
PageEmptyTitle == [kind |-> "page", title |-> PyNone]
PageNoTitle == [kind |-> "page"]
FetchTimeout == [kind |-> "Timeout"]
FetchFailed == [kind |-> "RequestException", err |-> "404 Client Error"]

WebOutcomes ==
    {PageWithTitle, PageEmptyTitle, PageNoTitle, FetchTimeout, FetchFailed}

\* sqlite3: the insert commits or raises sqlite3.Error
DbOutcomes == {"ok", "sqlite3.Error"}

END == "__end__"

(***************************************************************************)
(* src/tools.py                                                            *)
(***************************************************************************)
TimeoutSentinel == "Could not scrape website: The request timed out."
NoTitleSentinel == "No title tag found on homepage."
ScrapeErrorPrefix == "Could not scrape website: "

\* f"{prefix}{e}"
PyFStr(prefix, e) == [kind |-> "str", str |-> prefix, arg |-> e]

\* str.strip() on the titles the pages of the model carry
Strip(s) == IF s = "  Acme Corp \n" THEN "Acme Corp" ELSE s

\* The two handlers the other way round: requests.Timeout is a
\* RequestException, so the generic handler would take the timeout.
get_website_title_generic_handler_first(domain, web) ==
    IF web.kind \in {"Timeout", "RequestException"}
    THEN Returned(PyFStr(ScrapeErrorPrefix, web.kind))
    ELSE IF "title" \in DOMAIN web
         THEN IF web.title = PyNone
              THEN Raised("AttributeError")
              ELSE Returned(PyStr(Strip(web.title.str)))
         ELSE Returned(PyStr(NoTitleSentinel))

get_website_title(domain, web) ==
    IF web.kind = "Timeout"
    THEN Returned(PyStr(TimeoutSentinel))
    ELSE IF web.kind = "RequestException"
         THEN Returned(PyFStr(ScrapeErrorPrefix, web.err))
         ELSE IF "title" \in DOMAIN web
              THEN \* soup.title.string.strip(): None has no strip
                   IF web.title = PyNone
                   THEN Raised("AttributeError")
                   ELSE Returned(PyStr(Strip(web.title.str)))
              ELSE Returned(PyStr(NoTitleSentinel))

\* The row the INSERT binds: lead_data.get(column) for each column
\* What a column declared TEXT keeps of a bound value: an int is stored as
\* its decimal text, a str and NULL as they are
SqlText(v) == IF IsInt(v) THEN PyStr(ToString(v.int)) ELSE v

LeadRow(lead_data) ==
    [c \in {"name", "email", "message", "company_title", "classification",
            "score", "drafted_reply"} |->
        IF c = "score" THEN SqlText(DictGet(lead_data, c, PyNone))
        ELSE DictGet(lead_data, c, PyNone)]

add_lead_to_db_swallows_error(rows, lead_data, db) ==
    IF db = "ok"
    THEN [exc |-> "none", rows |-> Append(rows, LeadRow(lead_data))]
    ELSE [exc |-> "none", rows |-> rows]

\* An UPDATE (or INSERT OR REPLACE) in place of the INSERT: the new row takes
\* the place of what the table held
add_lead_to_db_replaces_rows(rows, lead_data, db) ==
    IF db = "ok"
    THEN [exc |-> "none", rows |-> <<LeadRow(lead_data)>>]
    ELSE [exc |-> db, rows |-> rows]

\* The table after the call, and the exception the call raises
add_lead_to_db(rows, lead_data, db) ==
    IF db = "ok"
    THEN [exc |-> "none", rows |-> Append(rows, LeadRow(lead_data))]
    ELSE [exc |-> db, rows |-> rows]

(***************************************************************************)
(* src/main.py: the nodes and the router of the graph                      *)
(***************************************************************************)
\* json.loads(response.content) followed by result.get(...)
JsonLoadsRaises(resp) == resp.kind = "text"
GetRaises(resp) == resp.kind # "object"

classify_lead(state, resp) ==
    IF JsonLoadsRaises(resp) THEN Raised("JSONDecodeError")
    ELSE IF GetRaises(resp) THEN Raised("AttributeError")
    ELSE Returned([classification |->
                      DictGet(resp.obj, "classification", PyStr("spam"))])

enrich_lead(state, web) ==
    LET parts == Split(state.lead_input.email, "@")
    IN  IF Len(parts) < 2 THEN Raised("IndexError")
        ELSE LET title == get_website_title(parts[2], web)
             IN  IF title.exc # "none" THEN title
                 ELSE Returned([company_title |-> title.val])

\* The node also returns the title it read
score_and_draft_returns_title(state, resp) ==
    IF "company_title" \notin DOMAIN state THEN Raised("KeyError")
    ELSE IF JsonLoadsRaises(resp) THEN Raised("JSONDecodeError")
    ELSE IF GetRaises(resp) THEN Raised("AttributeError")
    ELSE Returned([score |-> DictGet(resp.obj, "score", PyNone),
                   drafted_reply |-> DictGet(resp.obj, "drafted_reply", PyNone),
                   company_title |-> PyStr("N/A")])

score_and_draft(state, resp) ==
    IF "company_title" \notin DOMAIN state THEN Raised("KeyError")
    ELSE IF JsonLoadsRaises(resp) THEN Raised("JSONDecodeError")
    ELSE IF GetRaises(resp) THEN Raised("AttributeError")
    ELSE Returned([score |-> DictGet(resp.obj, "score", PyNone),
                   drafted_reply |-> DictGet(resp.obj, "drafted_reply", PyNone)])

\* A case-blind comparison
decide_next_step_ignores_case(state) ==
    IF DictGet(state, "classification", PyNone) \in
           {PyStr("sales_query"), PyStr("Sales_Query")}
    THEN "enrich_lead"
    ELSE END

decide_next_step_spam_proceeds(state) ==
    IF DictGet(state, "classification", PyNone) \in
           {PyStr("sales_query"), PyStr("spam")}
    THEN "enrich_lead"
    ELSE END

decide_next_step(state) ==
    IF DictGet(state, "classification", PyNone) = PyStr("sales_query")
    THEN "enrich_lead"
    ELSE END

(***************************************************************************)
(* src/main.py: the endpoint                                               *)
(***************************************************************************)
\* LeadOutput(...): four str fields and an int score, or a ValidationError
\* score: int takes an int, or a str that is the decimal text of an int
IntLiterals == (MinScore - 1)..(MaxScore + 1)
ParsesAsInt(v) == IsStr(v) /\ \E i \in IntLiterals : ToString(i) = v.str
CoerceInt(v) ==
    IF ParsesAsInt(v)
    THEN PyInt(CHOOSE i \in IntLiterals : ToString(i) = v.str)
    ELSE v

LeadOutputValid(out) ==
    /\ IsStr(out.status)
    /\ IsStr(out.classification)
    /\ IsInt(out.score) \/ ParsesAsInt(out.score)
    /\ IsStr(out.company_title)
    /\ IsStr(out.drafted_reply)

LeadOutput(out) ==
    IF LeadOutputValid(out)
    THEN Returned([out EXCEPT !.score = CoerceInt(@)])
    ELSE Raised("ValidationError")

NonSalesStatus == "SUCCESS - NON-SALES LEAD"
SalesStatus == "SUCCESS - SALES LEAD PROCESSED"
NonSalesReply ==
    "N/A - This lead was classified as non-sales and not processed further."

initial_state(body) == [lead_input |-> body, messages |-> <<body.message>>]

non_sales_output(final) ==
    [status |-> PyStr(NonSalesStatus),
     classification |-> DictGet(final, "classification", PyNone),
     score |-> PyInt(0),
     company_title |-> PyStr("N/A"),
     drafted_reply |-> PyStr(NonSalesReply)]

sales_output(final) ==
    [status |-> PyStr(SalesStatus),
     classification |-> DictGet(final, "classification", PyNone),
     score |-> DictGet(final, "score", PyNone),
     company_title |-> DictGet(final, "company_title", PyNone),
     drafted_reply |-> DictGet(final, "drafted_reply", PyNone)]

complete_lead_data(final) == DictMerge(final.lead_input, final)

\* if final_state.get("classification") != "sales_query"
is_non_sales(final) ==
    DictGet(final, "classification", PyNone) # PyStr("sales_query")

\* add_edge("enrich_lead", END): the scoring node left out
Edge_skips_scoring(node) == END

\* add_edge("score_and_draft", "score_and_draft"): scoring run again
Edge_repeats_scoring(node) == "score_and_draft"

\* add_edge("enrich_lead", "score_and_draft"); add_edge("score_and_draft", END)
Edge(node) == IF node = "enrich_lead" THEN "score_and_draft" ELSE END

(***************************************************************************)
(* State                                                                   *)
(***************************************************************************)
VARIABLES
    pc,        \* where each request is: "idle", a node of the graph,
               \* "decide_next_step", "invoke_returned", "return_sales", "done"
    request,   \* the body each request was submitted with
    state,     \* the AgentState of each request's workflow
    final_state, \* what agent_app.invoke returned, None until it returns
    result,    \* what the caller got: pending, a 422, a LeadOutput, an exception
    leads,     \* the rows of the leads table, oldest first
    log        \* per request, the calls made so far, each logged when it
               \* returns or raises, with the outside answer it got

vars == <<pc, request, state, final_state, result, leads, log>>

Pending == [kind |-> "pending"]
Rejected == [kind |-> "422"]
Response(out) == [kind |-> "response", body |-> out]
Failed(e) == [kind |-> "raised", exc |-> e]

Call(op, exc, input) == [op |-> op, exc |-> exc, input |-> input]

Init ==
    /\ pc = [r \in Requests |-> "idle"]
    /\ request = [r \in Requests |-> PyNone]
    /\ state = [r \in Requests |-> EmptyDict]
    /\ final_state = [r \in Requests |-> PyNone]
    /\ result = [r \in Requests |-> Pending]
    /\ leads = <<>>
    /\ log = [r \in Requests |-> <<>>]

\* A node raised, or the endpoint did: the request ends with the exception.
\* The exception caught and the workflow started over
Abort_starts_over(r, e) ==
    /\ pc' = [pc EXCEPT ![r] = "classify_lead"]
    /\ result' = result

Abort(r, e) ==
    /\ pc' = [pc EXCEPT ![r] = "done"]
    /\ result' = [result EXCEPT ![r] = Failed(e)]

(***************************************************************************)
(* POST /qualify-lead: validation of the body, then the initial state      *)
(***************************************************************************)
Submit(r, body) ==
    /\ pc[r] = "idle"
    /\ request' = [request EXCEPT ![r] = body]
    /\ IF LeadInputValid(body)
       THEN /\ state' = [state EXCEPT ![r] = initial_state(body)]
            /\ pc' = [pc EXCEPT ![r] = "classify_lead"]
            /\ UNCHANGED result
       ELSE /\ pc' = [pc EXCEPT ![r] = "done"]
            /\ result' = [result EXCEPT ![r] = Rejected]
            /\ UNCHANGED state
    /\ UNCHANGED <<final_state, leads, log>>

(***************************************************************************)
(* agent_app.invoke(initial_state)                                         *)
(***************************************************************************)
ClassifyLead(r, resp) ==
    /\ pc[r] = "classify_lead"
    /\ LET out == classify_lead(state[r], resp)
       IN  /\ log' = [log EXCEPT ![r] =
                         Append(@, Call("classify_lead", out.exc, resp))]
           /\ IF out.exc = "none"
              THEN /\ state' = [state EXCEPT ![r] = DictMerge(@, out.val)]
                   /\ pc' = [pc EXCEPT ![r] = "decide_next_step"]
                   /\ UNCHANGED result
              ELSE /\ Abort(r, out.exc)
                   /\ UNCHANGED state
    /\ UNCHANGED <<request, final_state, leads>>

Route(r) ==
    /\ pc[r] = "decide_next_step"
    /\ LET next == decide_next_step(state[r])
       IN  IF next = END
           THEN /\ pc' = [pc EXCEPT ![r] = "invoke_returned"]
                /\ final_state' = [final_state EXCEPT ![r] = state[r]]
           ELSE /\ pc' = [pc EXCEPT ![r] = next]
                /\ UNCHANGED final_state
    /\ log' = [log EXCEPT ![r] = Append(@, Call("decide_next_step", "none", PyNone))]
    /\ UNCHANGED <<request, state, result, leads>>

EnrichLead(r, web) ==
    /\ pc[r] = "enrich_lead"
    /\ LET out == enrich_lead(state[r], web)
           parts == Split(state[r].lead_input.email, "@")
       IN  /\ log' = [log EXCEPT ![r] =
                         IF Len(parts) < 2
                         THEN Append(@, Call("enrich_lead", out.exc, web))
                         ELSE @ \o <<Call("get_website_title",
                                          get_website_title(parts[2], web).exc,
                                          web),
                                     Call("enrich_lead", out.exc, web)>>]
           /\ IF out.exc = "none"
              THEN /\ state' = [state EXCEPT ![r] = DictMerge(@, out.val)]
                   /\ pc' = [pc EXCEPT ![r] = Edge("enrich_lead")]
                   /\ UNCHANGED result
              ELSE /\ Abort(r, out.exc)
                   /\ UNCHANGED state
    /\ UNCHANGED <<request, final_state, leads>>

ScoreAndDraft(r, resp) ==
    /\ pc[r] = "score_and_draft"
    /\ LET out == score_and_draft(state[r], resp)
       IN  /\ log' = [log EXCEPT ![r] =
                         Append(@, Call("score_and_draft", out.exc, resp))]
           /\ IF out.exc = "none"
              THEN /\ state' = [state EXCEPT ![r] = DictMerge(@, out.val)]
                   /\ IF Edge("score_and_draft") = END
                      THEN /\ pc' = [pc EXCEPT ![r] = "invoke_returned"]
                           /\ final_state' =
                                  [final_state EXCEPT ![r] = state'[r]]
                      ELSE /\ pc' = [pc EXCEPT ![r] = Edge("score_and_draft")]
                           /\ UNCHANGED final_state
                   /\ UNCHANGED result
              ELSE /\ Abort(r, out.exc)
                   /\ UNCHANGED <<state, final_state>>
    /\ UNCHANGED <<request, leads>>

(***************************************************************************)
(* qualify_lead after the workflow returned final_state                    *)
(***************************************************************************)
\* non_sales_lead = {**final_state["lead_input"], **final_state} is built
\* and the call that would store it is commented out: the table stays as is
non_sales_saved(rows, final) ==
    Append(rows, LeadRow(DictMerge(final.lead_input, final)))

non_sales_lead(rows, final) == rows

\* return LeadOutput(...): the response, or the ValidationError
Finish(r, out) ==
    /\ log' = [log EXCEPT ![r] = Append(@, Call("LeadOutput", out.exc, PyNone))]
    /\ IF out.exc = "none"
       THEN /\ pc' = [pc EXCEPT ![r] = "done"]
            /\ result' = [result EXCEPT ![r] = Response(out.val)]
       ELSE Abort(r, out.exc)

NonSalesReturn(r) ==
    /\ pc[r] = "invoke_returned"
    /\ is_non_sales(final_state[r])
    /\ leads' = non_sales_lead(leads, final_state[r])
    /\ Finish(r, LeadOutput(non_sales_output(final_state[r])))
    /\ UNCHANGED <<request, state, final_state>>

AddLead(r, db) ==
    /\ pc[r] = "invoke_returned"
    /\ ~is_non_sales(final_state[r])
    /\ LET res == add_lead_to_db(leads, complete_lead_data(final_state[r]), db)
       IN  /\ leads' = res.rows
           /\ log' = [log EXCEPT ![r] =
                         Append(@, Call("add_lead_to_db", res.exc, db))]
           /\ IF res.exc = "none"
              THEN /\ pc' = [pc EXCEPT ![r] = "return_sales"]
                   /\ UNCHANGED result
              ELSE Abort(r, res.exc)
    /\ UNCHANGED <<request, state, final_state>>

SalesReturn(r) ==
    /\ pc[r] = "return_sales"
    /\ Finish(r, LeadOutput(sales_output(final_state[r])))
    /\ UNCHANGED <<request, state, final_state, leads>>

\* One step of request r
Step(r) ==
    \/ \E body \in Bodies : Submit(r, body)
    \/ \E resp \in ClassifierResponses : ClassifyLead(r, resp)
    \/ Route(r)
    \/ \E web \in WebOutcomes : EnrichLead(r, web)
    \/ \E resp \in ScorerResponses : ScoreAndDraft(r, resp)
    \/ NonSalesReturn(r)
    \/ \E db \in DbOutcomes : AddLead(r, db)
    \/ SalesReturn(r)

Next == \E r \in Requests : Step(r)

Spec == Init /\ [][Next]_vars

\* Every call to the LLM, the website and the database returns or fails, and
\* the worker serving a request keeps running it: each request's next step
\* is eventually taken.
SpecLive == Spec /\ \A r \in Requests : WF_vars(Step(r))

(***************************************************************************)
(* Several requests served at once (several workers, one leads.db): the    *)
(* same steps, interleaved at every outside call, over fewer answers.      *)
(***************************************************************************)
NumConcurrent == 2
ConcRequests == 1..NumConcurrent

ConcBodies == {LeadAda, LeadBob}
ConcClassifierResponses ==
    {JsonObject([classification |-> PyStr("sales_query")]),
     JsonObject([classification |-> PyStr("spam")])}
ConcWebOutcomes == {PageWithTitle, FetchTimeout}
ConcScorerResponses ==
    {JsonObject([score |-> PyInt(85), drafted_reply |-> d]) : d \in ReplyValues}

InitConc ==
    /\ pc = [r \in ConcRequests |-> "idle"]
    /\ request = [r \in ConcRequests |-> PyNone]
    /\ state = [r \in ConcRequests |-> EmptyDict]
    /\ final_state = [r \in ConcRequests |-> PyNone]
    /\ result = [r \in ConcRequests |-> Pending]
    /\ leads = <<>>
    /\ log = [r \in ConcRequests |-> <<>>]

NextConc ==
    \E r \in ConcRequests :
        \/ \E body \in ConcBodies : Submit(r, body)
        \/ \E resp \in ConcClassifierResponses : ClassifyLead(r, resp)
        \/ Route(r)
        \/ \E web \in ConcWebOutcomes : EnrichLead(r, web)
        \/ \E resp \in ConcScorerResponses : ScoreAndDraft(r, resp)
        \/ NonSalesReturn(r)
        \/ \E db \in DbOutcomes : AddLead(r, db)
        \/ SalesReturn(r)

SpecConc == InitConc /\ [][NextConc]_vars

(***************************************************************************)
(* Reading the log                                                         *)
(***************************************************************************)
Calls(r, op) == {i \in 1..Len(log[r]) : log[r][i].op = op}
Count(r, op) == Cardinality(Calls(r, op))
ReturnedCalls(r, op) == {i \in Calls(r, op) : log[r][i].exc = "none"}

\* The calls of the three nodes, in order
NodeNames == {"classify_lead", "enrich_lead", "score_and_draft"}
IsNodeCall(c) == c.op \in NodeNames
NodeCalls(r) == SelectSeq(log[r], IsNodeCall)

\* agent_app.invoke returned a final state for the request
WorkflowReturned(r) == final_state[r] # PyNone

Classified(r) == "classification" \in DOMAIN state[r]
IsSales(r) == Classified(r) /\ ~is_non_sales(state[r])

\* A JSON object that lacks the key
Lacks(resp, key) == resp.kind = "object" /\ key \notin DOMAIN resp.obj

(***************************************************************************)
(* C1: every request whose classification after the Classify step is not   *)
(* exactly "sales_query" ends with a non-sales response carrying score 0   *)
(* and company_title "N/A", and neither enrich_lead nor score_and_draft is *)
(* invoked for it.                                                         *)
(***************************************************************************)
C1_NonSalesResponse ==
    \A r \in Requests :
        (Classified(r) /\ is_non_sales(state[r])) =>
            /\ Count(r, "enrich_lead") = 0
            /\ Count(r, "score_and_draft") = 0
            /\ pc[r] = "done" =>
                   /\ result[r].kind = "response"
                   /\ result[r].body.status = PyStr(NonSalesStatus)
                   /\ result[r].body.score = PyInt(0)
                   /\ result[r].body.company_title = PyStr("N/A")

(***************************************************************************)
(* C2: for every request classified "sales_query" the workflow invokes     *)
(* enrich_lead exactly once, then score_and_draft exactly once, enrichment *)
(* completing before scoring starts, and classify_lead is not invoked      *)
(* again after the router has run.                                         *)
(***************************************************************************)
C2_SalesRunsEnrichThenScore ==
    \A r \in Requests :
        (IsSales(r) /\ pc[r] = "done") =>
            /\ Len(NodeCalls(r)) = 3
            /\ NodeCalls(r)[1].op = "classify_lead"
            /\ NodeCalls(r)[2].op = "enrich_lead"
            /\ NodeCalls(r)[2].exc = "none"
            /\ NodeCalls(r)[3].op = "score_and_draft"

(***************************************************************************)
(* C3: whenever the classifier's response is not valid JSON, or is a JSON  *)
(* object without the key "classification", classify_lead completes        *)
(* without failing the request and sets classification to "spam".          *)
(***************************************************************************)
C3_MalformedClassifierIsSpam ==
    \A r \in Requests : \A i \in Calls(r, "classify_lead") :
        (log[r][i].input = NotJson \/ Lacks(log[r][i].input, "classification")) =>
            /\ log[r][i].exc = "none"
            /\ Classified(r)
            /\ state[r].classification = PyStr("spam")

(***************************************************************************)
(* C4: on the sales path, when the scorer's JSON object lacks "score"      *)
(* and/or "drafted_reply", the state field is left null and the caller     *)
(* receives a sales response in which that field is null.                  *)
(***************************************************************************)
C4_MissingScorerKeysSurfaceAsNull ==
    \A r \in Requests : \A i \in Calls(r, "score_and_draft") :
        \A key \in {"score", "drafted_reply"} :
            Lacks(log[r][i].input, key) =>
                /\ state[r][key] = PyNone
                /\ (pc[r] = "done" /\ ReturnedCalls(r, "add_lead_to_db") # {}) =>
                       /\ result[r].kind = "response"
                       /\ result[r].body.status = PyStr(SalesStatus)
                       /\ result[r].body[key] = PyNone

C6_StoreFailureIsFatal ==
    \A r \in Requests : \A i \in Calls(r, "add_lead_to_db") :
        log[r][i].input # "ok" =>
            /\ log[r][i].exc = log[r][i].input
            /\ pc[r] = "done"
            /\ result[r] = Failed(log[r][i].input)
            /\ Count(r, "LeadOutput") = 0

C6_Witness ==
    \E r \in Requests : \E i \in Calls(r, "add_lead_to_db") :
        /\ log[r][i].input = "sqlite3.Error"
        /\ pc[r] = "done"

(***************************************************************************)
(* C7: in the final state of every request whose workflow returned, each   *)
(* of company_title, score and drafted_reply is a key of the state (a step *)
(* has written it) if and only if classification is "sales_query".         *)
(***************************************************************************)
C7_SalesFieldsIffSales ==
    \A r \in Requests :
        WorkflowReturned(r) =>
            \A key \in {"company_title", "score", "drafted_reply"} :
                (key \in DOMAIN final_state[r]) <=>
                    (DictGet(final_state[r], "classification", PyNone)
                         = PyStr("sales_query"))

C7_Witness ==
    \E r \in Requests :
        /\ WorkflowReturned(r)
        /\ IsSales(r)
        /\ {"company_title", "score", "drafted_reply"}
               \subseteq DOMAIN final_state[r]
        /\ final_state[r].score = PyNone

(***************************************************************************)
(* C8: get_website_title never raises: whatever the homepage fetch did,    *)
(* every lookup returns a string to enrich_lead.                           *)
(***************************************************************************)
C8_LookupNeverRaises ==
    \A r \in Requests : \A i \in Calls(r, "get_website_title") :
        log[r][i].exc = "none"

(***************************************************************************)
(* C9: when the website lookup times out, enrich_lead returns normally,    *)
(* company_title is the timeout sentinel, and the workflow goes on to      *)
(* score_and_draft instead of aborting.                                    *)
(***************************************************************************)
C9_TimeoutYieldsSentinel ==
    \A r \in Requests : \A i \in Calls(r, "enrich_lead") :
        log[r][i].input = FetchTimeout =>
            /\ log[r][i].exc = "none"
            /\ log[r][i - 1] = Call("get_website_title", "none", FetchTimeout)
            /\ "company_title" \in DOMAIN state[r]
            /\ state[r].company_title = PyStr(TimeoutSentinel)
            /\ IF i = Len(log[r])
               THEN pc[r] = "score_and_draft" /\ result[r] = Pending
               ELSE log[r][i + 1].op = "score_and_draft"

C9_Witness ==
    \E r \in Requests : \E i \in Calls(r, "enrich_lead") :
        /\ log[r][i].input = FetchTimeout
        /\ Count(r, "score_and_draft") = 1

(***************************************************************************)
(* C10: every sales response carries a score that is an integer in 0..100, *)
(* whatever the scoring service put under "score".                         *)
(***************************************************************************)
C10_SalesScoreInRange ==
    \A r \in Requests :
        (result[r].kind = "response"
            /\ result[r].body.status = PyStr(SalesStatus)) =>
            /\ IsInt(result[r].body.score)
            /\ result[r].body.score.int >= MinScore
            /\ result[r].body.score.int <= MaxScore

(***************************************************************************)
(* C11: a body that is no LeadInput (email not a valid address, or a field *)
(* missing) is rejected with a validation error before the workflow is     *)
(* invoked: no step runs, no call to the LLM, the website or the database  *)
(* is made, the request leaves no row in the leads table, and so           *)
(* enrich_lead never runs on an email without "@".                         *)
(***************************************************************************)
Submitted(r) == request[r] # PyNone
Malformed(body) ==
    \/ ~({"name", "email", "message"} \subseteq DOMAIN body)
    \/ ~EmailStrValid(body.email)

C11_MalformedBodyRejected ==
    /\ \A r \in Requests :
        (Submitted(r) /\ Malformed(request[r])) =>
            /\ pc[r] = "done"
            /\ result[r] = Rejected
            /\ log[r] = <<>>
            /\ state[r] = EmptyDict
            /\ final_state[r] = PyNone
    /\ \A r \in Requests : \A i \in Calls(r, "enrich_lead") :
        /\ Len(Split(state[r].lead_input.email, "@")) >= 2
        /\ log[r][i].exc # "IndexError"
    /\ Len(leads) <=
           Cardinality({r \in Requests :
                           Submitted(r) /\ ~Malformed(request[r])})

C11_Witness ==
    \E r \in Requests :
        /\ Submitted(r)
        /\ "email" \in DOMAIN request[r]
        /\ ~EmailStrValid(request[r].email)
        /\ result[r] = Rejected

(***************************************************************************)
(* C12: with requests served concurrently, in every interleaving each      *)
(* request's workflow state and response are what its own lead and the     *)
(* answers to its own calls give (a step of one request leaves every other *)
(* request as it was), and the leads table only grows by appends: no row   *)
(* is changed or removed, and it holds one row per successful write.       *)
(***************************************************************************)
\* The state a request's own calls build from its own lead
RECURSIVE OwnState(_, _)
OwnState(st, calls) ==
    IF calls = <<>> THEN st
    ELSE LET c == Head(calls)
             out == IF c.op = "classify_lead" THEN classify_lead(st, c.input)
                    ELSE IF c.op = "enrich_lead" THEN enrich_lead(st, c.input)
                    ELSE IF c.op = "score_and_draft"
                         THEN score_and_draft(st, c.input)
                         ELSE Raised("not a node")
         IN  OwnState(IF out.exc = "none" THEN DictMerge(st, out.val) ELSE st,
                      Tail(calls))

OwnResponse(st) ==
    LeadOutput(IF is_non_sales(st) THEN non_sales_output(st)
               ELSE sales_output(st)).val

Local(r) == <<pc[r], request[r], state[r], final_state[r], result[r], log[r]>>

RequestsAreIsolated ==
    /\ \A r \in ConcRequests :
        /\ Submitted(r) =>
               /\ state[r] = OwnState(initial_state(request[r]), log[r])
               /\ result[r].kind = "response" =>
                      result[r].body = OwnResponse(state[r])
        /\ ~Submitted(r) => state[r] = EmptyDict /\ log[r] = <<>>
    /\ Len(leads) =
           Cardinality({r \in ConcRequests :
                           ReturnedCalls(r, "add_lead_to_db") # {}})
    /\ \A r \in ConcRequests :
           ReturnedCalls(r, "add_lead_to_db") # {} =>
               \E n \in 1..Len(leads) :
                   leads[n] = LeadRow(DictMerge(request[r], state[r]))

StoreOnlyAppends ==
    \/ leads' = leads
    \/ /\ Len(leads') = Len(leads) + 1
       /\ SubSeq(leads', 1, Len(leads)) = leads

OneRequestPerStep ==
    \A r \in ConcRequests, q \in ConcRequests :
        (Local(r)' # Local(r) /\ q # r) => Local(q)' = Local(q)

C12_ConcurrentRequestsIsolated ==
    /\ []RequestsAreIsolated
    /\ [][StoreOnlyAppends /\ OneRequestPerStep]_vars

C12_Witness ==
    \E r \in ConcRequests, q \in ConcRequests :
        /\ r # q
        /\ Len(leads) >= 2
        /\ leads[1].name = request[r].name
        /\ leads[2].name = request[q].name
        /\ r > q
        /\ result[r].kind = "response"
        /\ pc[q] = "return_sales"

(***************************************************************************)
(* C13: decide_next_step depends on the classification alone: it routes to *)
(* enrich_lead if and only if classification is exactly "sales_query", and *)
(* ends the workflow for every other value ("Sales_Query", None, a state   *)
(* without classification), and it leaves the state as it was.             *)
(***************************************************************************)
RouterStep(r) == pc[r] = "decide_next_step" /\ pc'[r] # "decide_next_step"

C13_RouterExactMatch ==
    [][\A r \in Requests :
          /\ RouterStep(r) =>
                 /\ state'[r] = state[r]
                 /\ IF state[r].classification = PyStr("sales_query")
                    THEN pc'[r] = "enrich_lead" /\ final_state'[r] = PyNone
                    ELSE pc'[r] = "invoke_returned" /\ final_state'[r] = state[r]
          /\ (pc[r] = "classify_lead" /\ ~Classified(r)) =>
                 decide_next_step(state[r]) = END
          /\ \A q \in Requests :
                 (Classified(r) /\ Classified(q)
                     /\ state[r].classification = state[q].classification) =>
                     decide_next_step(state[r]) = decide_next_step(state[q])
      ]_vars

C13_Witness ==
    \E r \in Requests :
        /\ Count(r, "decide_next_step") = 1
        /\ state[r].classification = PyStr("Sales_Query")
        /\ final_state[r] = state[r]
        /\ Count(r, "enrich_lead") = 0

(***************************************************************************)
(* C14: the workflow only moves start -> classified, classified ->         *)
(* terminated (not sales), classified -> enriched (sales), enriched ->     *)
(* scored_and_drafted -> terminated; each of the three nodes runs at most  *)
(* once per request and the workflow terminates at most once.              *)
(***************************************************************************)
\* Where a request stands in the workflow
WorkflowAt(r) ==
    IF pc[r] = "classify_lead" THEN "start"
    ELSE IF pc[r] = "decide_next_step" THEN "classified"
    ELSE IF pc[r] = "enrich_lead" THEN "routed_to_enrich"
    ELSE IF pc[r] = "score_and_draft" THEN "enriched"
    ELSE IF WorkflowReturned(r) THEN "terminated"
    ELSE IF pc[r] = "idle" THEN "not_started"
    ELSE IF pc[r] = "done" THEN "left"
    ELSE "elsewhere"

WorkflowMoves ==
    {<<"not_started", "start">>, <<"not_started", "left">>,
     <<"start", "classified">>, <<"start", "left">>,
     <<"classified", "terminated">>, <<"classified", "routed_to_enrich">>,
     <<"routed_to_enrich", "enriched">>, <<"routed_to_enrich", "left">>,
     <<"enriched", "terminated">>, <<"enriched", "left">>}

C14_OnlyGraphTransitions ==
    [][\A r \in Requests :
          /\ WorkflowAt(r)' # WorkflowAt(r) =>
                 /\ <<WorkflowAt(r), WorkflowAt(r)'>> \in WorkflowMoves
                 /\ (WorkflowAt(r) = "classified") =>
                        ((WorkflowAt(r)' = "routed_to_enrich") <=> IsSales(r))
                 /\ (WorkflowAt(r)' = "terminated"
                         /\ WorkflowAt(r) = "enriched") =>
                        log'[r][Len(log'[r])].op = "score_and_draft"
          /\ \A op \in NodeNames : Cardinality({i \in 1..Len(log'[r]) :
                                                   log'[r][i].op = op}) <= 1
          /\ final_state[r] # PyNone => final_state'[r] = final_state[r]
      ]_vars

C14_Witness ==
    \E r \in Requests :
        /\ WorkflowAt(r) = "terminated"
        /\ Len(NodeCalls(r)) = 3
        /\ pc[r] = "invoke_returned"

(***************************************************************************)
(* C15: no call is retried: per request classify_lead calls the LLM once,  *)
(* score_and_draft at most once more, the website is looked up at most     *)
(* once and the row is written at most once; a call that failed or got a   *)
(* malformed answer is not made again.                                     *)
(***************************************************************************)
C15_NoRetries ==
    \A r \in Requests :
        /\ Count(r, "classify_lead") <= 1
        /\ Count(r, "score_and_draft") <= 1
        /\ Count(r, "enrich_lead") <= 1
        /\ Count(r, "get_website_title") <= 1
        /\ Count(r, "add_lead_to_db") <= 1
        /\ pc[r] \notin {"idle", "classify_lead"} /\ ~(Submitted(r) /\ Malformed(request[r]))
               => Count(r, "classify_lead") = 1
        /\ \A i \in 1..Len(log[r]) :
               log[r][i].exc # "none" =>
                   /\ pc[r] = "done"
                   /\ \/ i = Len(log[r])
                      \/ /\ i = Len(log[r]) - 1
                         /\ log[r][i].op = "get_website_title"
                         /\ log[r][i + 1].op = "enrich_lead"
                         /\ log[r][i + 1].exc = log[r][i].exc

C15_Witness ==
    \E r \in Requests :
        /\ pc[r] = "done"
        /\ \E i \in Calls(r, "score_and_draft") : log[r][i].input = NotJson
        /\ Count(r, "classify_lead") = 1
        /\ Count(r, "get_website_title") = 1

(***************************************************************************)
(* C16: lead_input is set when the initial state is built and never        *)
(* changes; classify_lead changes only classification, enrich_lead only    *)
(* company_title, score_and_draft only score and drafted_reply, and the    *)
(* router and the endpoint change nothing in the state.                    *)
(***************************************************************************)
ChangedKeys(r) ==
    {k \in (DOMAIN state[r]) \cup (DOMAIN state'[r]) :
        \/ k \notin DOMAIN state[r]
        \/ k \notin DOMAIN state'[r]
        \/ state'[r][k] # state[r][k]}

MayChange(r) ==
    IF pc[r] = "idle" THEN {"lead_input", "messages"}
    ELSE IF pc[r] = "classify_lead" THEN {"classification"}
    ELSE IF pc[r] = "enrich_lead" THEN {"company_title"}
    ELSE IF pc[r] = "score_and_draft" THEN {"score", "drafted_reply"}
    ELSE {}

C16_StepsWriteOnlyTheirFields ==
    [][\A r \in Requests :
          /\ ChangedKeys(r) \subseteq MayChange(r)
          /\ pc[r] # "idle" =>
                 /\ state'[r].lead_input = request[r]
                 /\ request'[r] = request[r]
      ]_vars

C16_Witness ==
    \E r \in Requests :
        /\ pc[r] = "invoke_returned"
        /\ {"classification", "company_title", "score", "drafted_reply"}
               \subseteq DOMAIN state[r]
        /\ state[r].lead_input = request[r]

(***************************************************************************)
(* C17: whenever the endpoint returns a sales response, the row appended   *)
(* for that request has name, email and message equal to the submitted     *)
(* lead, and company_title, classification, score and drafted_reply equal  *)
(* to the values in the response.                                          *)
(***************************************************************************)
SalesResponse(r) ==
    result[r].kind = "response" /\ result[r].body.status = PyStr(SalesStatus)

C17_RowMatchesResponse ==
    \A r \in Requests :
        SalesResponse(r) =>
            \E n \in 1..Len(leads) :
                /\ leads[n].name = request[r].name
                /\ leads[n].email = request[r].email
                /\ leads[n].message = request[r].message
                /\ \A c \in {"company_title", "classification", "score",
                             "drafted_reply"} :
                       leads[n][c] = result[r].body[c]

(***************************************************************************)
(* C18: if a workflow step raises (a classifier or scorer answer that      *)
(* cannot be parsed, a failing enrichment), the request aborts at that     *)
(* step: no later step runs, add_lead_to_db is not called and the store    *)
(* gets no row from that request.                                          *)
(***************************************************************************)
RaisedInStep(r) == {i \in 1..Len(log[r]) : IsNodeCall(log[r][i])
                                               /\ log[r][i].exc # "none"}

Writers == {q \in Requests : ReturnedCalls(q, "add_lead_to_db") # {}}

C18_RaisingStepAborts ==
    \A r \in Requests : \A i \in RaisedInStep(r) :
        /\ i = Len(log[r])
        /\ pc[r] = "done"
        /\ result[r] = Failed(log[r][i].exc)
        /\ final_state[r] = PyNone
        /\ Count(r, "add_lead_to_db") = 0
        /\ Count(r, "LeadOutput") = 0
        /\ r \notin Writers
        /\ Len(leads) = Cardinality(Writers)

C18_Witness ==
    \E r \in Requests : \E i \in RaisedInStep(r) :
        /\ log[r][i].op = "score_and_draft"
        /\ log[r][i].input = NotJson
        /\ pc[r] = "done"

(***************************************************************************)
(* C19: provided every outside call returns or fails, every accepted       *)
(* request eventually finishes, with a response or with an error, after at *)
(* most three node executions and at most one router decision; no request  *)
(* stays in an intermediate workflow state forever.                        *)
(***************************************************************************)
InFlight(r) == pc[r] \notin {"idle", "done"}
Finished(r) == pc[r] = "done" /\ result[r].kind \in {"response", "raised"}

C19_EveryRequestFinishes ==
    /\ \A r \in Requests : InFlight(r) ~> Finished(r)
    /\ [](\A r \in Requests :
              /\ Len(NodeCalls(r)) <= 3
              /\ Count(r, "decide_next_step") <= 1)

C19_Witness ==
    \E r \in Requests :
        /\ Finished(r)
        /\ Len(NodeCalls(r)) = 3
        /\ Count(r, "decide_next_step") = 1
        /\ result[r].kind = "response"

====
